---------------------------- MODULE Spec2Model ----------------------------
(***************************************************************************)
(* Header tag output formats of lib/formats.c: the format registry         *)
(* (rpmHeaderFormats and its two lookups), the sixteen formatter functions *)
(* and the retry loop of pgpsigFormat.                                     *)
(*                                                                         *)
(* Conventions of the model                                                *)
(*  - a C string is a sequence of one-character strings; the NULL pointer  *)
(*    is a value of its own (NullVal, a td with isnull = TRUE);            *)
(*  - an integer of the tag data is the set of the bit positions that are  *)
(*    set in it (a 32-bit word is a subset of 0..31), so that no width is  *)
(*    lost and a conversion to a wider type is written as what it does to  *)
(*    the bits;                                                            *)
(*  - _() (gettext) is read with no message catalogue loaded: it returns   *)
(*    its argument;                                                        *)
(*  - functions that formats.c calls but does not define (b64encode,       *)
(*    b64decode, localtime, strftime, rpmPermsString, pgpArmorWrap,        *)
(*    pgpLen, pgpGrab, pgpPrtPkts) are inputs: the action that models the  *)
(*    caller draws their outcome from a bounded set.                       *)
(***************************************************************************)
EXTENDS Integers, Sequences, FiniteSets, TLC

VARIABLES
    pc,            \* position of the caller: idle, resolved, notfound, again, done
    key,           \* argument of the lookup in progress
    func,          \* what the lookup returned
    td,            \* the tag data container handed to the formatter
    prefixIn,      \* formatPrefix as the caller passed it
    formatPrefix,  \* formatPrefix as the formatter left it
    val,           \* the formatter's return value
    reads,         \* number of times td's data was read through a uint32_t pointer
    crash,         \* a NULL pointer was dereferenced
    ext,           \* outcomes of the external primitives of this call
    nb,            \* pgpsigFormat: nb
    buf,           \* pgpsigFormat: the nb+1 bytes val points to
    dig,           \* pgpsigFormat: dig->signature after pgpPrtPkts
    heap,          \* pgpsigFormat: allocations of the call that are live
    oob            \* pgpsigFormat: a write landed outside buf

vars ==
    <<pc, key, func, td, prefixIn, formatPrefix, val, reads, crash, ext,
      nb, buf, dig, heap, oob>>

---------------------------------------------------------------------------
(* Bounds of the model *)

\* longest string carried by a tag data container
MaxStrLen ==
    2

\* longest text strftime("%c") produces
MaxDateLen ==
    95

---------------------------------------------------------------------------
(* Strings *)

NotANumber ==
    <<"(","n","o","t"," ","a"," ","n","u","m","b","e","r",")">>
UnknownType ==
    <<"(","u","n","k","n","o","w","n"," ","t","y","p","e",")">>
NotABlob ==
    <<"(","n","o","t"," ","a"," ","b","l","o","b",")">>
NotBase64 ==
    <<"(","n","o","t"," ","b","a","s","e","6","4",")">>
InvalidType ==
    <<"(","i","n","v","a","l","i","d"," ","t","y","p","e",")">>
InvalidXmlType ==
    <<"(","i","n","v","a","l","i","d"," ","x","m","l"," ","t","y","p","e",")">>
NotAnOpenPGPSignature ==
    <<"(","n","o","t"," ","a","n"," ","O","p","e","n","P","G","P"," ",
      "s","i","g","n","a","t","u","r","e",")">>

\* the characters tag data strings are made of
Alphabet ==
    {"a", "'", "\\", "<"}

RECURSIVE StringsUpTo(_)
StringsUpTo(n) ==
    IF n = 0 THEN {<<>>}
    ELSE LET shorter == StringsUpTo(n - 1)
         IN  shorter \cup {Append(s, c) : s \in shorter, c \in Alphabet}

Strings ==
    StringsUpTo(MaxStrLen)

\* a formatter's return value: NULL, a string, a string read from an array
\* whose contents are indeterminate, or the block pgpArmorWrap returns
NullVal ==
    [tag |-> "null", s |-> <<>>]
Str(s) ==
    [tag |-> "str", s |-> s]
Indeterminate ==
    [tag |-> "indeterminate", s |-> <<>>]

---------------------------------------------------------------------------
(* The registry *)

NoFunc ==
    "NULL"

rpmHeaderFormats ==
    << [fmt |-> "RPMTD_FORMAT_STRING",      name |-> <<"string">>,      func |-> "stringFormat"],
       [fmt |-> "RPMTD_FORMAT_ARMOR",       name |-> <<"armor">>,       func |-> "armorFormat"],
       [fmt |-> "RPMTD_FORMAT_BASE64",      name |-> <<"base64">>,      func |-> "base64Format"],
       [fmt |-> "RPMTD_FORMAT_PGPSIG",      name |-> <<"pgpsig">>,      func |-> "pgpsigFormat"],
       [fmt |-> "RPMTD_FORMAT_DEPFLAGS",    name |-> <<"depflags">>,    func |-> "depflagsFormat"],
       [fmt |-> "RPMTD_FORMAT_FFLAGS",      name |-> <<"fflags">>,      func |-> "fflagsFormat"],
       [fmt |-> "RPMTD_FORMAT_PERMS",       name |-> <<"perms">>,       func |-> "permsFormat"],
       [fmt |-> "RPMTD_FORMAT_PERMS",       name |-> <<"permissions">>, func |-> "permsFormat"],
       [fmt |-> "RPMTD_FORMAT_TRIGGERTYPE", name |-> <<"triggertype">>, func |-> "triggertypeFormat"],
       [fmt |-> "RPMTD_FORMAT_XML",         name |-> <<"xml">>,         func |-> "xmlFormat"],
       [fmt |-> "RPMTD_FORMAT_OCTAL",       name |-> <<"octal">>,       func |-> "octalFormat"],
       [fmt |-> "RPMTD_FORMAT_HEX",         name |-> <<"hex">>,         func |-> "hexFormat"],
       [fmt |-> "RPMTD_FORMAT_DATE",        name |-> <<"date">>,        func |-> "dateFormat"],
       [fmt |-> "RPMTD_FORMAT_DAY",         name |-> <<"day">>,         func |-> "dayFormat"],
       [fmt |-> "RPMTD_FORMAT_SHESCAPE",    name |-> <<"shescape">>,    func |-> "shescapeFormat"],
       [fmt |-> "RPMTD_FORMAT_ARRAYSIZE",   name |-> <<"arraysize">>,   func |-> "arraysizeFormat"],
       [fmt |-> "-1",                       name |-> <<>>,              func |-> NoFunc] >>

RECURSIVE ScanByName(_, _)
ScanByName(i, fmt) ==
    LET e == rpmHeaderFormats[i]
    IN  IF e.name = <<>> THEN NoFunc
        ELSE IF e.name[1] = fmt THEN e.func
        ELSE ScanByName(i + 1, fmt)

\* a lookup whose loop starts one entry too late
FuncByNameSkippingFirst(fmt) ==
    ScanByName(2, fmt)

rpmHeaderFormatFuncByName(fmt) ==
    ScanByName(1, fmt)

RECURSIVE ScanByValue(_, _)
ScanByValue(i, fmt) ==
    LET e == rpmHeaderFormats[i]
    IN  IF e.name = <<>> THEN NoFunc
        ELSE IF fmt = e.fmt THEN e.func
        ELSE ScanByValue(i + 1, fmt)

rpmHeaderFormatFuncByValue(fmt) ==
    ScanByValue(1, fmt)

---------------------------------------------------------------------------
(* Tag data containers *)

Word32 ==
    0 .. 31

\* bit positions of the flags formats.c tests (values of the rpm headers)
RPMSENSE_LESS ==
    1
RPMSENSE_GREATER ==
    2
RPMSENSE_EQUAL ==
    3
RPMSENSE_TRIGGERIN ==
    16
RPMSENSE_TRIGGERUN ==
    17
RPMSENSE_TRIGGERPOSTUN ==
    18
RPMSENSE_TRIGGERPREIN ==
    25
RPMFILE_CONFIG ==
    0
RPMFILE_DOC ==
    1
RPMFILE_MISSINGOK ==
    3
RPMFILE_NOREPLACE ==
    4
RPMFILE_SPECFILE ==
    5
RPMFILE_GHOST ==
    6
RPMFILE_LICENSE ==
    7
RPMFILE_README ==
    8

Int32Samples ==
    { {}, {31}, Word32, 0 .. 8,
      {RPMFILE_DOC, RPMFILE_GHOST}, {RPMSENSE_LESS, RPMSENSE_EQUAL},
      {RPMSENSE_GREATER}, {RPMSENSE_TRIGGERIN}, {RPMSENSE_TRIGGERUN},
      {RPMSENSE_TRIGGERPOSTUN}, {RPMSENSE_TRIGGERPREIN, RPMSENSE_TRIGGERIN} }

\* first bytes of a binary value: bit 7 clear, old and new packet framing,
\* signature and other tags
FirstBytes ==
    {0, 127, 137, 152, 194, 198, 255}

TD(type, count, num, str, data, isnull) ==
    [type |-> type, count |-> count, num |-> num, str |-> str,
     data |-> data, isnull |-> isnull]

\* the containers the upstream store hands over.  str is what
\* rpmtdGetString yields for the container, num what the integer accessors
\* point to, data/count the bytes of a binary value (isnull: data == NULL).
TDs ==
    {TD("RPM_NULL_TYPE", 0, {}, s, <<>>, TRUE) : s \in Strings}
    \cup {TD(t, 1, n, s, <<>>, FALSE) :
            t \in {"RPM_CHAR_TYPE", "RPM_INT8_TYPE"}, n \in {{}, 0 .. 7},
            s \in Strings}
    \cup {TD("RPM_INT16_TYPE", 1, n, s, <<>>, FALSE) :
            n \in {{}, 0 .. 15}, s \in Strings}
    \cup {TD("RPM_INT64_TYPE", 1, n, s, <<>>, FALSE) :
            n \in {{}, 0 .. 63}, s \in Strings}
    \cup {TD("RPM_INT32_TYPE", 1, n, <<>>, <<>>, FALSE) : n \in Int32Samples}
    \cup {TD("RPM_STRING_TYPE", 1, {}, s, <<>>, FALSE) : s \in Strings}
    \cup {TD(t, c, {}, s, <<>>, FALSE) :
            t \in {"RPM_STRING_ARRAY_TYPE", "RPM_I18NSTRING_TYPE"},
            c \in {1, 2}, s \in Strings}
    \cup {TD("RPM_BIN_TYPE", 0, {}, s, <<>>, TRUE) : s \in Strings}
    \cup {TD("RPM_BIN_TYPE", 1, {}, s, <<b>>, FALSE) :
            b \in FirstBytes, s \in Strings}

\* the templates the query engine pre-seeds
Prefixes ==
    { <<"%">>, <<"%", "-", "3">> }

rpmtdType(t) ==
    t.type

rpmtdCount(t) ==
    t.count

rpmtdGetString(t) ==
    t.str

\* what *rpmtdGetUint32(td) reads
rpmtdGetUint32(t) ==
    t.num

---------------------------------------------------------------------------
(* printf *)

DigitVal ==
    [c \in {"0","1","2","3","4","5","6","7","8","9"} |->
        CASE c = "0" -> 0 [] c = "1" -> 1 [] c = "2" -> 2 [] c = "3" -> 3
          [] c = "4" -> 4 [] c = "5" -> 5 [] c = "6" -> 6 [] c = "7" -> 7
          [] c = "8" -> 8 [] c = "9" -> 9]

RECURSIVE DecVal(_)
DecVal(ds) ==
    IF ds = <<>> THEN 0
    ELSE 10 * DecVal(SubSeq(ds, 1, Len(ds) - 1)) + DigitVal[ds[Len(ds)]]

Rep(c, n) ==
    [i \in 1 .. n |-> c]

RECURSIVE TakeDigits(_)
TakeDigits(cs) ==
    IF cs # <<>> /\ cs[1] \in DOMAIN DigitVal
    THEN <<cs[1]>> \o TakeDigits(Tail(cs))
    ELSE <<>>

\* rasprintf(&val, fmt, arg) where fmt is "%", an optional "-", an optional
\* width and one conversion, and text is what the conversion makes of arg
Rasprintf(fmt, text) ==
    LET minus == Len(fmt) >= 2 /\ fmt[2] = "-"
        rest  == SubSeq(fmt, IF minus THEN 3 ELSE 2, Len(fmt))
        width == DecVal(TakeDigits(rest))
        pad   == Rep(" ", width - Len(text))
    IN  IF minus THEN text \o pad ELSE pad \o text

HexDigits ==
    <<"0","1","2","3","4","5","6","7","8","9","a","b","c","d","e","f">>

RECURSIVE pgpHexStr(_)
pgpHexStr(bytes) ==
    IF bytes = <<>> THEN <<>>
    ELSE <<HexDigits[(bytes[1] \div 16) + 1], HexDigits[(bytes[1] % 16) + 1]>>
         \o pgpHexStr(Tail(bytes))

\* digits (least significant first) of m * digs + carry in the given base
RECURSIVE MulAdd(_, _, _, _)
MulAdd(digs, base, m, carry) ==
    IF digs = <<>>
    THEN IF carry = 0 THEN <<>>
         ELSE <<carry % base>> \o MulAdd(<<>>, base, m, carry \div base)
    ELSE LET v == digs[1] * m + carry
         IN  <<v % base>> \o MulAdd(Tail(digs), base, m, v \div base)

\* the value of the 16 bits 16 * j .. 16 * j + 15 of bits
RECURSIVE Limb(_, _, _)
Limb(bits, j, i) ==
    IF i > 15 THEN 0
    ELSE (IF 16 * j + i \in bits THEN 2 ^ i ELSE 0) + Limb(bits, j, i + 1)

RECURSIVE Numeral(_)
Numeral(digs) ==
    IF digs = <<>> THEN <<>>
    ELSE Numeral(Tail(digs)) \o <<HexDigits[digs[1] + 1]>>

\* the numeral printf's u, o and x conversions produce for an unsigned value
Unsigned(bits, base) ==
    LET d3   == MulAdd(<<>>, base, 65536, Limb(bits, 3, 0))
        d2   == MulAdd(d3, base, 65536, Limb(bits, 2, 0))
        d1   == MulAdd(d2, base, 65536, Limb(bits, 1, 0))
        digs == MulAdd(d1, base, 65536, Limb(bits, 0, 0))
    IN  IF digs = <<>> THEN <<"0">> ELSE Numeral(digs)

\* two's complement negation of a 32-bit pattern: its magnitude when bit 31
\* is set
RECURSIVE Negate32(_, _, _)
Negate32(bits, i, carry) ==
    IF i > 31 THEN {}
    ELSE LET inv == IF i \in bits THEN 0 ELSE 1
             sum == inv + carry
         IN  (IF sum % 2 = 1 THEN {i} ELSE {})
             \cup Negate32(bits, i + 1, sum \div 2)

\* printf's d conversion of a 32-bit argument
Signed32(bits) ==
    IF 31 \in bits THEN <<"-">> \o Unsigned(Negate32(bits, 0, 1), 10)
    ELSE Unsigned(bits, 10)

RECURSIVE NatBits(_, _)
NatBits(n, i) ==
    IF n = 0 THEN {}
    ELSE (IF n % 2 = 1 THEN {i} ELSE {}) \cup NatBits(n \div 2, i + 1)

PRIu8 ==
    <<"h", "h", "u">>
PRIu16 ==
    <<"h", "u">>
PRIu32 ==
    <<"u">>
PRIu64 ==
    <<"l", "u">>

---------------------------------------------------------------------------
(* External primitives *)

\* outcomes of the primitives one formatter call uses:
\*   encfail   b64encode returns NULL
\*   decfail   b64decode returns non-zero
\*   timebits  width of the platform's time_t
\*   tm        localtime returns a struct tm
\*   datelen   length of the text strftime has to produce
\*   perms     the string rpmPermsString returns
\*   parsed    pgpPrtPkts returns 0
NoExt ==
    [encfail |-> FALSE, decfail |-> FALSE, timebits |-> 64, tm |-> TRUE,
     datelen |-> 0, perms |-> <<>>, parsed |-> FALSE]

B64Chars ==
    <<"A","B","C","D","E","F","G","H","I","J","K","L","M","N","O","P",
      "Q","R","S","T","U","V","W","X","Y","Z","a","b","c","d","e","f",
      "g","h","i","j","k","l","m","n","o","p","q","r","s","t","u","v",
      "w","x","y","z","0","1","2","3","4","5","6","7","8","9","+","/">>

\* b64encode(data, count, -1) of up to one group of three bytes per step
RECURSIVE b64encode(_)
b64encode(bytes) ==
    IF bytes = <<>> THEN <<>>
    ELSE LET b1 == bytes[1]
             b2 == IF Len(bytes) >= 2 THEN bytes[2] ELSE 0
             b3 == IF Len(bytes) >= 3 THEN bytes[3] ELSE 0
             c1 == B64Chars[(b1 \div 4) + 1]
             c2 == B64Chars[((b1 % 4) * 16 + (b2 \div 16)) + 1]
             c3 == IF Len(bytes) >= 2
                   THEN B64Chars[((b2 % 16) * 4 + (b3 \div 64)) + 1] ELSE "="
             c4 == IF Len(bytes) >= 3 THEN B64Chars[(b3 % 64) + 1] ELSE "="
         IN  <<c1, c2, c3, c4>>
             \o (IF Len(bytes) > 3 THEN b64encode(SubSeq(bytes, 4, Len(bytes)))
                 ELSE <<>>)

\* the block pgpArmorWrap(atype, s, ns) returns
pgpArmorWrap(atype, bytes) ==
    [tag |-> "armor", s |-> <<atype>> \o b64encode(bytes)]

\* the text strftime produces under a format: datelen characters
strftimeText(strftimeFormat, datelen) ==
    Rep(strftimeFormat, datelen)

PermsSamples ==
    { <<"-","r","w","-","r","-","-","r","-","-">>,
      <<"d","r","w","x","r","-","x","r","-","x">> }

---------------------------------------------------------------------------
(* The formatters.  Each returns what the C function returns and what it *)
(* leaves in formatPrefix.                                                *)

NoTime ==
    [bits |-> {}, width |-> 0]

Ret(v, fp, r) ==
    [val |-> v, fmt |-> fp, reads |-> r, crash |-> FALSE, oob |-> FALSE,
     dateint |-> NoTime]

IsStringType(t) ==
    rpmtdType(t) \in {"RPM_STRING_TYPE", "RPM_STRING_ARRAY_TYPE",
                      "RPM_I18NSTRING_TYPE"}

stringFormat(t, fp) ==
    CASE rpmtdType(t) \in {"RPM_INT8_TYPE", "RPM_CHAR_TYPE"} ->
            Ret(Str(Rasprintf(fp \o PRIu8, Unsigned(t.num, 10))), fp \o PRIu8, 0)
      [] rpmtdType(t) = "RPM_INT16_TYPE" ->
            Ret(Str(Rasprintf(fp \o PRIu16, Unsigned(t.num, 10))), fp \o PRIu16, 0)
      [] rpmtdType(t) = "RPM_INT32_TYPE" ->
            Ret(Str(Rasprintf(fp \o PRIu32, Unsigned(rpmtdGetUint32(t), 10))),
                fp \o PRIu32, 1)
      [] rpmtdType(t) = "RPM_INT64_TYPE" ->
            Ret(Str(Rasprintf(fp \o PRIu64, Unsigned(t.num, 10))), fp \o PRIu64, 0)
      [] IsStringType(t) ->
            Ret(Str(Rasprintf(fp \o <<"s">>, rpmtdGetString(t))), fp \o <<"s">>, 0)
      [] rpmtdType(t) = "RPM_BIN_TYPE" ->
            Ret(Str(Rasprintf(fp \o <<"s">>, pgpHexStr(t.data))), fp \o <<"s">>, 0)
      [] OTHER ->
            Ret(Str(UnknownType), fp, 0)

\* octalFormat without its type test
octalFormatUntyped(t, fp) ==
    Ret(Str(Rasprintf(fp \o <<"o">>, Unsigned(rpmtdGetUint32(t), 8))),
        fp \o <<"o">>, 1)

octalFormat(t, fp) ==
    IF rpmtdType(t) # "RPM_INT32_TYPE"
    THEN Ret(Str(NotANumber), fp, 0)
    ELSE Ret(Str(Rasprintf(fp \o <<"o">>, Unsigned(rpmtdGetUint32(t), 8))),
             fp \o <<"o">>, 1)

hexFormat(t, fp) ==
    IF rpmtdType(t) # "RPM_INT32_TYPE"
    THEN Ret(Str(NotANumber), fp, 0)
    ELSE Ret(Str(Rasprintf(fp \o <<"x">>, Unsigned(rpmtdGetUint32(t), 16))),
             fp \o <<"x">>, 1)

\* the bits of a two's complement value of width from, at width to
SignExtend(bits, from, to) ==
    bits \cup (IF from - 1 \in bits THEN from .. to - 1 ELSE {})

\* a conversion that reads *rt as int32_t
ToTimeTSigned(bits, timebits) ==
    [bits |-> SignExtend(bits, 32, timebits), width |-> timebits]

\* time_t dateint = *rt, with rt a pointer to uint32_t: the 32 bits are the
\* low bits of the time_t; a wider time_t has its upper bits clear,
\* whatever bit 31 is
ToTimeT(bits, timebits) ==
    [bits |-> bits, width |-> timebits]

\* char buf[50]; strftime(buf, sizeof(buf) - 1, ...): the text and its NUL
\* have to fit in 49 bytes, else the contents of buf are indeterminate
DateBufMax ==
    49

realDateFormat(t, fp, strftimeFormat, e) ==
    IF rpmtdType(t) # "RPM_INT32_TYPE"
    THEN Ret(Str(NotANumber), fp, 0)
    ELSE LET fp1  == fp \o <<"s">>
             text == strftimeText(strftimeFormat, e.datelen)
             v    == IF ~e.tm THEN Str(Rasprintf(fp1, <<>>))
                     ELSE IF Len(text) + 1 <= DateBufMax
                          THEN Str(Rasprintf(fp1, text))
                          ELSE Indeterminate
         IN  [Ret(v, fp1, 1) EXCEPT
                 !.dateint = ToTimeT(rpmtdGetUint32(t), e.timebits)]

dateFormat(t, fp, e) ==
    realDateFormat(t, fp, "%c", e)

dayFormat(t, fp, e) ==
    realDateFormat(t, fp, "%a %b %d %Y", e)

\* a loop that escapes a quote with a backslash and stays inside the quotes
ShEscapeCharBackslash(c) ==
    IF c = "'" THEN <<"\\", "'">> ELSE <<c>>

\* what the loop over src writes for one character
ShEscapeChar(c) ==
    IF c = "'" THEN <<"'", "\\", "'", "'">> ELSE <<c>>

RECURSIVE ShEscapeLoop(_)
ShEscapeLoop(src) ==
    IF src = <<>> THEN <<>>
    ELSE ShEscapeChar(src[1]) \o ShEscapeLoop(Tail(src))

\* xmalloc(strlen(buf) * 4 + 3)
ShEscapeSize(len) ==
    len * 4 + 3

shescapeFormat(t, fp) ==
    IF rpmtdType(t) = "RPM_INT32_TYPE"
    THEN Ret(Str(Rasprintf(fp \o <<"d">>, Signed32(rpmtdGetUint32(t)))),
             fp \o <<"d">>, 1)
    ELSE LET b   == Rasprintf(fp \o <<"s">>, rpmtdGetString(t))
             out == <<"'">> \o ShEscapeLoop(b) \o <<"'">>
         IN  [Ret(Str(out), fp \o <<"s">>, 0) EXCEPT
                 !.oob = Len(out) + 1 > ShEscapeSize(Len(b))]

triggertypeFormat(t, fp) ==
    LET item == rpmtdGetUint32(t)
    IN  IF rpmtdType(t) # "RPM_INT32_TYPE" THEN Ret(Str(NotANumber), fp, 0)
        ELSE IF RPMSENSE_TRIGGERPREIN \in item THEN Ret(Str(<<"p","r","e","i","n">>), fp, 1)
        ELSE IF RPMSENSE_TRIGGERIN \in item THEN Ret(Str(<<"i","n">>), fp, 1)
        ELSE IF RPMSENSE_TRIGGERUN \in item THEN Ret(Str(<<"u","n">>), fp, 1)
        ELSE IF RPMSENSE_TRIGGERPOSTUN \in item
             THEN Ret(Str(<<"p","o","s","t","u","n">>), fp, 1)
        ELSE Ret(Str(<<>>), fp, 1)

permsFormat(t, fp, e) ==
    IF rpmtdType(t) # "RPM_INT32_TYPE"
    THEN Ret(Str(NotANumber), fp, 0)
    ELSE Ret(Str(Rasprintf(fp \o <<"s">>, e.perms)), fp \o <<"s">>, 1)

\* strcat(buf, c) if the flag is set
FlagChar(anint, flag, c) ==
    IF flag \in anint THEN <<c>> ELSE <<>>

fflagsFormat(t, fp) ==
    IF rpmtdType(t) # "RPM_INT32_TYPE"
    THEN Ret(Str(NotANumber), fp, 0)
    ELSE LET anint == rpmtdGetUint32(t)
             b == FlagChar(anint, RPMFILE_DOC, "d")
                  \o FlagChar(anint, RPMFILE_CONFIG, "c")
                  \o FlagChar(anint, RPMFILE_SPECFILE, "s")
                  \o FlagChar(anint, RPMFILE_MISSINGOK, "m")
                  \o FlagChar(anint, RPMFILE_NOREPLACE, "n")
                  \o FlagChar(anint, RPMFILE_GHOST, "g")
                  \o FlagChar(anint, RPMFILE_LICENSE, "l")
                  \o FlagChar(anint, RPMFILE_README, "r")
         IN  Ret(Str(Rasprintf(fp \o <<"s">>, b)), fp \o <<"s">>, 1)

\* depflagsFormat rendering with "%s" without appending to formatPrefix
depflagsFormatNoStrcat(t, fp) ==
    IF rpmtdType(t) # "RPM_INT32_TYPE"
    THEN Ret(Str(NotANumber), fp, 0)
    ELSE Ret(Str(Rasprintf(fp \o <<"s">>,
                           FlagChar(rpmtdGetUint32(t), RPMSENSE_LESS, "<")
                           \o FlagChar(rpmtdGetUint32(t), RPMSENSE_GREATER, ">")
                           \o FlagChar(rpmtdGetUint32(t), RPMSENSE_EQUAL, "="))),
             fp, 1)

depflagsFormat(t, fp) ==
    IF rpmtdType(t) # "RPM_INT32_TYPE"
    THEN Ret(Str(NotANumber), fp, 0)
    ELSE LET anint == rpmtdGetUint32(t)
             b == FlagChar(anint, RPMSENSE_LESS, "<")
                  \o FlagChar(anint, RPMSENSE_GREATER, ">")
                  \o FlagChar(anint, RPMSENSE_EQUAL, "=")
         IN  Ret(Str(Rasprintf(fp \o <<"s">>, b)), fp \o <<"s">>, 1)

armorFormat(t, fp, e) ==
    CASE rpmtdType(t) = "RPM_BIN_TYPE" ->
            Ret(pgpArmorWrap("PGPARMOR_SIGNATURE", t.data), fp, 0)
      [] rpmtdType(t) \in {"RPM_STRING_TYPE", "RPM_STRING_ARRAY_TYPE"} ->
            IF e.decfail THEN Ret(Str(NotBase64), fp, 0)
            ELSE Ret(pgpArmorWrap("PGPARMOR_PUBKEY", <<>>), fp, 0)
      [] OTHER ->
            Ret(Str(InvalidType), fp, 0)

base64Format(t, fp, e) ==
    IF rpmtdType(t) # "RPM_BIN_TYPE"
    THEN Ret(Str(NotABlob), fp, 0)
    ELSE IF e.encfail
         THEN Ret(NullVal, fp, 0)
         ELSE Ret(Str(Rasprintf(fp \o <<"s">>, b64encode(t.data))),
                  fp \o <<"s">>, 0)

\* rpmtdFormat(td, fmt, NULL): the formatter of fmt, called on a template of
\* its own that holds "%"
rpmtdFormat(t, fmt, e) ==
    IF rpmHeaderFormatFuncByValue(fmt) = "base64Format"
    THEN base64Format(t, <<"%">>, e)
    ELSE stringFormat(t, <<"%">>)

XmlEscapeChar(c) ==
    CASE c = "<" -> <<"&","l","t",";">>
      [] c = ">" -> <<"&","g","t",";">>
      [] c = "&" -> <<"&","a","m","p",";">>
      [] OTHER -> <<c>>

RECURSIVE XmlEscape(_)
XmlEscape(str) ==
    IF str = <<>> THEN <<>>
    ELSE XmlEscapeChar(str[1]) \o XmlEscape(Tail(str))

XmlTag(t) ==
    CASE IsStringType(t) -> <<"s","t","r","i","n","g">>
      [] rpmtdType(t) = "RPM_BIN_TYPE" -> <<"b","a","s","e","6","4">>
      [] rpmtdType(t) \in {"RPM_CHAR_TYPE", "RPM_INT8_TYPE", "RPM_INT16_TYPE",
                          "RPM_INT32_TYPE"} -> <<"i","n","t","e","g","e","r">>
      [] OTHER -> <<>>

xmlFormat(t, fp, e) ==
    LET xtag == XmlTag(t)
        fmt  == IF rpmtdType(t) = "RPM_BIN_TYPE" THEN "RPMTD_FORMAT_BASE64"
                ELSE "RPMTD_FORMAT_STRING"
    IN  IF xtag = <<>> THEN Ret(Str(InvalidXmlType), fp, 0)
        ELSE LET inner == rpmtdFormat(t, fmt, e)
                 s     == inner.val
             IN  IF s.tag = "null"
                 THEN [Ret(NullVal, fp, inner.reads) EXCEPT !.crash = TRUE]
                 ELSE IF s.s = <<>>
                 THEN Ret(Str(<<"\t", "<">> \o xtag \o <<"/", ">">>),
                          fp \o <<"s">>, inner.reads)
                 ELSE Ret(Str(<<"\t", "<">> \o xtag \o <<">">> \o XmlEscape(s.s)
                              \o <<"<", "/">> \o xtag \o <<">">>),
                          fp \o <<"s">>, inner.reads)

arraysizeFormat(t, fp) ==
    Ret(Str(Rasprintf(fp \o <<"u">>, Unsigned(NatBits(rpmtdCount(t), 0), 10))),
        fp \o <<"u">>, 0)

---------------------------------------------------------------------------
(* pgpsigFormat *)

PGPTAG_SIGNATURE ==
    2
PGPPUBKEYALGO_RSA ==
    1
PGPPUBKEYALGO_DSA ==
    17
PGPHASHALGO_MD5 ==
    1
PGPHASHALGO_SHA1 ==
    2

\* nb += 100
NbQuantum ==
    100

NUL ==
    "NUL"

\* a byte of the buffer that was never written
Junk ==
    "?"

KeyIdLit ==
    <<","," ","K","e","y"," ","I","D"," ">>

\* the sizes pgpLen reports for the length field of a new-format packet
PgpLenSizes ==
    {1, 2, 5}

\* body lengths the length field of a packet header may hold
BodyLens ==
    {0, 1, 70}

\* the packet header: tag and pktlen from the first byte v, the size plen of
\* the length field (new format: as pgpLen reports it) and the body length
\* hlen read from it
PgpHeader(v, newplen, hlen) ==
    IF (v \div 128) % 2 = 1
    THEN IF (v \div 64) % 2 = 1
         THEN [tag |-> v % 64, pktlen |-> 1 + newplen + hlen]
         ELSE [tag |-> (v \div 4) % 16, pktlen |-> 1 + 2 ^ (v % 4) + hlen]
    ELSE [tag |-> 0, pktlen |-> 0]

AlgoSamples ==
    {0, PGPPUBKEYALGO_RSA, PGPPUBKEYALGO_DSA}

HashSamples ==
    {PGPHASHALGO_MD5, PGPHASHALGO_SHA1, 255}

KeyIdSample ==
    <<222, 173, 190, 239, 1, 35, 69, 103>>

\* dig->signature as pgpNewDig (xcalloc) leaves it
NoDig ==
    [pubkey_algo |-> 0, hash_algo |-> 0, signid |-> <<0, 0, 0, 0, 0, 0, 0, 0>>]

\* dig->signature after pgpPrtPkts returned 0
Digs ==
    [pubkey_algo : AlgoSamples, hash_algo : HashSamples, signid : {KeyIdSample}]

\* dig->signature after pgpPrtPkts failed: untouched, or filled in part
FailedDigs ==
    {NoDig, [NoDig EXCEPT !.pubkey_algo = PGPPUBKEYALGO_DSA]}

NoHeap ==
    [val |-> 0, tempstr |-> 0, dig |-> 0, digfrees |-> 0]

\* the cursor of the rendering: the buffer, the offset t - val, and whether
\* a write fell outside the buffer
Poke(b, off, chars) ==
    LET inside == IF off + Len(chars) <= Len(b) THEN chars
                  ELSE SubSeq(chars, 1, Len(b) - off)
    IN  IF off >= Len(b) THEN b
        ELSE SubSeq(b, 1, off) \o inside
             \o SubSeq(b, off + Len(inside) + 1, Len(b))

Write(st, chars) ==
    [b   |-> Poke(st.b, st.t, chars),
     t   |-> st.t,
     oob |-> st.oob \/ st.t + Len(chars) > Len(st.b)]

\* t = stpcpy(t, str)
Stpcpy(st, str) ==
    [Write(st, str \o <<NUL>>) EXCEPT !.t = st.t + Len(str)]

\* *t++ = c
PutChar(st, c) ==
    [Write(st, <<c>>) EXCEPT !.t = st.t + 1]

\* snprintf(t, size, "%d", n); t += strlen(t)
Snprintf(st, size, n) ==
    LET text == Unsigned(NatBits(n, 0), 10)
        kept == SubSeq(text, 1, IF Len(text) < size THEN Len(text) ELSE size - 1)
    IN  IF size <= 0 THEN st
        ELSE [Write(st, kept \o <<NUL>>) EXCEPT !.t = st.t + Len(kept)]

\* strftime(t, max, "%c", tstruct): the text and its NUL if they fit in max
\* bytes; if they do not, strftime returns 0 and leaves the max bytes
\* indeterminate
Strftime(st, max, text) ==
    IF Len(text) + 1 <= max THEN Write(st, text \o <<NUL>>)
    ELSE Write(st, Rep(Junk, max))

\* strlen(t): the distance to the first NUL, or -1 if an indeterminate byte
\* or the end of the buffer comes first
Strlen(b, off) ==
    LET stops == {i \in off + 1 .. Len(b) : b[i] \in {NUL, Junk}}
        first == CHOOSE i \in stops : \A j \in stops : i <= j
    IN  IF stops = {} THEN -1
        ELSE IF b[first] = Junk THEN -1
        ELSE first - 1 - off

\* the C string at the start of the buffer
CStr(b) ==
    LET nuls  == {i \in 1 .. Len(b) : b[i] = NUL}
        first == CHOOSE i \in nuls : \A j \in nuls : i <= j
    IN  IF nuls = {} THEN b ELSE SubSeq(b, 1, first - 1)

\* switch (sigp->pubkey_algo), writing at t into a buffer of n + 1 bytes
WritePubkeyAlgo(st, n, algo) ==
    CASE algo = PGPPUBKEYALGO_DSA -> Stpcpy(st, <<"D","S","A">>)
      [] algo = PGPPUBKEYALGO_RSA -> Stpcpy(st, <<"R","S","A">>)
      [] OTHER -> Snprintf(st, n - st.t, algo)

\* switch (sigp->hash_algo)
WriteHashAlgo(st, n, algo) ==
    CASE algo = PGPHASHALGO_MD5 -> Stpcpy(st, <<"M","D","5">>)
      [] algo = PGPHASHALGO_SHA1 -> Stpcpy(st, <<"S","H","A","1">>)
      [] OTHER -> Snprintf(st, n - st.t, algo)

\* if (t + 5 >= val + nb) goto again
NoRoomForSlash(t, n) ==
    t + 5 >= n

\* if (t + strlen (", ") + 1 >= val + nb) goto again
NoRoomForComma(t, n) ==
    t + 2 + 1 >= n

\* if (t + strlen (", Key ID ") + 1 >= val + nb) goto again
NoRoomForKeyIdLit(t, n) ==
    t + Len(KeyIdLit) + 1 >= n

\* the same test, letting one byte too many through
NoRoomForKeyIdOffByOne(t, len, n) ==
    t + len > n + 1

\* if (t + strlen (tempstr) > val + nb) goto again
NoRoomForKeyId(t, len, n) ==
    t + len > n

\* how a pass ends:
\*   again    in a goto again
\*   tempstr  pgpHexStr's string is still allocated
\*   ub       strlen read indeterminate bytes
PassEnd(st, again, tempstr, ub) ==
    [st |-> st, again |-> again, tempstr |-> tempstr, ub |-> ub]

\* tempstr = pgpHexStr(...) to the end of the block
FromHexStr(n, st, tempstr, ub) ==
    IF NoRoomForKeyId(st.t, Len(tempstr), n)
    THEN PassEnd(st, TRUE, 1, ub)
    ELSE PassEnd(Stpcpy(st, tempstr), FALSE, 0, ub)

\* t += strlen(t), where strlen returns len, to the end of the block
FromStrlen(n, d, st, len, k) ==
    IF NoRoomForKeyIdLit(st.t + (IF len < 0 THEN k ELSE len), n)
    THEN PassEnd([st EXCEPT !.t = @ + (IF len < 0 THEN k ELSE len)],
                 TRUE, 0, len < 0)
    ELSE FromHexStr(n,
                    Stpcpy([st EXCEPT !.t = @ + (IF len < 0 THEN k ELSE len)],
                           KeyIdLit),
                    pgpHexStr(d.signid), len < 0)

\* after strftime to the end of the block
FromDate(n, d, st, k) ==
    FromStrlen(n, d, st, Strlen(st.b, st.t), k)

\* t = stpcpy(t, ", ") to the end of the block
FromComma(n, d, e, st, k) ==
    FromDate(n, d,
             IF e.tm THEN Strftime(st, n - st.t, strftimeText("%c", e.datelen))
             ELSE st,
             k)

\* the test after the hash algorithm to the end of the block
FromHashAlgo(n, d, e, st, k) ==
    IF NoRoomForComma(st.t, n)
    THEN PassEnd(st, TRUE, 0, FALSE)
    ELSE FromComma(n, d, e, Stpcpy(st, <<",", " ">>), k)

\* the test after the public key algorithm to the end of the block
FromPubkeyAlgo(n, d, e, st, k) ==
    IF NoRoomForSlash(st.t, n)
    THEN PassEnd(st, TRUE, 0, FALSE)
    ELSE FromHashAlgo(n, d, e, WriteHashAlgo(PutChar(st, "/"), n, d.hash_algo), k)

\* one pass from the label again to a goto again or to the end of the
\* block: n is nb after nb += 100, b the n + 1 bytes xrealloc returned, k
\* what strlen returns if it reads indeterminate bytes
RenderPass(n, b, d, e, k) ==
    FromPubkeyAlgo(n, d, e,
                   WritePubkeyAlgo([b |-> b, t |-> 0, oob |-> FALSE], n,
                                   d.pubkey_algo),
                   k)

---------------------------------------------------------------------------
(* The caller: resolve a formatter through the registry, then call it *)

Names ==
    {"string", "armor", "base64", "pgpsig", "depflags", "fflags", "perms",
     "permissions", "triggertype", "xml", "octal", "hex", "date", "day",
     "shescape", "arraysize", "nonexistent", ""}

Codes ==
    {"RPMTD_FORMAT_STRING", "RPMTD_FORMAT_ARMOR", "RPMTD_FORMAT_BASE64",
     "RPMTD_FORMAT_PGPSIG", "RPMTD_FORMAT_DEPFLAGS", "RPMTD_FORMAT_FFLAGS",
     "RPMTD_FORMAT_PERMS", "RPMTD_FORMAT_TRIGGERTYPE", "RPMTD_FORMAT_XML",
     "RPMTD_FORMAT_OCTAL", "RPMTD_FORMAT_HEX", "RPMTD_FORMAT_DATE",
     "RPMTD_FORMAT_DAY", "RPMTD_FORMAT_SHESCAPE", "RPMTD_FORMAT_ARRAYSIZE",
     "-1", "99"}

NoKey ==
    [by |-> "none", k |-> ""]

NoTD ==
    TD("RPM_NULL_TYPE", 0, {}, <<>>, <<>>, TRUE)

\* lengths of the text strftime has to produce in realDateFormat
DateLens ==
    {24, DateBufMax}

Init ==
    /\ pc = "idle"
    /\ key = NoKey
    /\ func = NoFunc
    /\ td = NoTD
    /\ prefixIn = <<>>
    /\ formatPrefix = <<>>
    /\ val = NullVal
    /\ reads = 0
    /\ crash = FALSE
    /\ ext = NoExt
    /\ nb = 0
    /\ buf = <<>>
    /\ dig = NoDig
    /\ heap = NoHeap
    /\ oob = FALSE

Resolved(f, k) ==
    /\ func' = f
    /\ key' = k
    /\ pc' = IF f = NoFunc THEN "notfound" ELSE "resolved"
    /\ UNCHANGED <<td, prefixIn, formatPrefix, val, reads, crash, ext,
                   nb, buf, dig, heap, oob>>

LookupByName ==
    /\ pc = "idle"
    /\ \E n \in Names :
          Resolved(rpmHeaderFormatFuncByName(n), [by |-> "name", k |-> n])

LookupByValue ==
    /\ pc = "idle"
    /\ \E c \in Codes :
          Resolved(rpmHeaderFormatFuncByValue(c), [by |-> "value", k |-> c])

\* the call func(td, formatPrefix) returning r
Returned(t, fp, e, r) ==
    /\ td' = t
    /\ prefixIn' = fp
    /\ ext' = e
    /\ formatPrefix' = r.fmt
    /\ val' = r.val
    /\ reads' = r.reads
    /\ crash' = r.crash
    /\ oob' = r.oob
    /\ key' = NoKey
    /\ pc' = "done"
    /\ UNCHANGED <<func, nb, buf, dig, heap>>

Calling(f) ==
    pc = "resolved" /\ func = f

CallString ==
    /\ Calling("stringFormat")
    /\ \E t \in TDs, fp \in Prefixes :
          Returned(t, fp, NoExt, stringFormat(t, fp))

CallOctal ==
    /\ Calling("octalFormat")
    /\ \E t \in TDs, fp \in Prefixes :
          Returned(t, fp, NoExt, octalFormat(t, fp))

CallHex ==
    /\ Calling("hexFormat")
    /\ \E t \in TDs, fp \in Prefixes :
          Returned(t, fp, NoExt, hexFormat(t, fp))

\* the outcomes of localtime and strftime, and the platform's time_t
DateExts ==
    {[NoExt EXCEPT !.timebits = w, !.tm = m, !.datelen = l] :
        w \in {32, 64}, m \in BOOLEAN, l \in DateLens}

\* dateint, the argument of localtime in realDateFormat
DateInt(t, e) ==
    realDateFormat(t, <<"%">>, "%c", e).dateint

CallDate ==
    /\ Calling("dateFormat")
    /\ \E t \in TDs, fp \in Prefixes, e \in DateExts :
          Returned(t, fp, e, dateFormat(t, fp, e))

CallDay ==
    /\ Calling("dayFormat")
    /\ \E t \in TDs, fp \in Prefixes, e \in DateExts :
          Returned(t, fp, e, dayFormat(t, fp, e))

CallShescape ==
    /\ Calling("shescapeFormat")
    /\ \E t \in TDs, fp \in Prefixes :
          Returned(t, fp, NoExt, shescapeFormat(t, fp))

CallTriggertype ==
    /\ Calling("triggertypeFormat")
    /\ \E t \in TDs, fp \in Prefixes :
          Returned(t, fp, NoExt, triggertypeFormat(t, fp))

CallPerms ==
    /\ Calling("permsFormat")
    /\ \E t \in TDs, fp \in Prefixes, ps \in PermsSamples :
          LET e == [NoExt EXCEPT !.perms = ps]
          IN  Returned(t, fp, e, permsFormat(t, fp, e))

CallFflags ==
    /\ Calling("fflagsFormat")
    /\ \E t \in TDs, fp \in Prefixes :
          Returned(t, fp, NoExt, fflagsFormat(t, fp))

CallDepflags ==
    /\ Calling("depflagsFormat")
    /\ \E t \in TDs, fp \in Prefixes :
          Returned(t, fp, NoExt, depflagsFormat(t, fp))

CallArmor ==
    /\ Calling("armorFormat")
    /\ \E t \in TDs, fp \in Prefixes, f \in BOOLEAN :
          LET e == [NoExt EXCEPT !.decfail = f]
          IN  Returned(t, fp, e, armorFormat(t, fp, e))

CallBase64 ==
    /\ Calling("base64Format")
    /\ \E t \in TDs, fp \in Prefixes, f \in BOOLEAN :
          LET e == [NoExt EXCEPT !.encfail = f]
          IN  Returned(t, fp, e, base64Format(t, fp, e))

CallXml ==
    /\ Calling("xmlFormat")
    /\ \E t \in TDs, fp \in Prefixes, f \in BOOLEAN :
          LET e == [NoExt EXCEPT !.encfail = f]
          IN  Returned(t, fp, e, xmlFormat(t, fp, e))

CallArraysize ==
    /\ Calling("arraysizeFormat")
    /\ \E t \in TDs, fp \in Prefixes :
          Returned(t, fp, NoExt, arraysizeFormat(t, fp))

\* pgpsigFormat reads neither the string form of td nor formatPrefix: one
\* string form and one template stand for all
PgpsigTDs ==
    {t \in TDs : t.str = <<>>}

\* pgpsigFormat up to the label again: the type test, the packet header,
\* pgpNewDig and pgpPrtPkts
CallPgpsig ==
    /\ Calling("pgpsigFormat")
    /\ \E t \in PgpsigTDs, fp \in {<<"%">>} :
          /\ td' = t
          /\ prefixIn' = fp
          /\ formatPrefix' = fp
          /\ key' = NoKey
          /\ reads' = 0
          /\ oob' = FALSE
          /\ nb' = 0
          /\ buf' = <<>>
          /\ UNCHANGED func
          /\ IF rpmtdType(t) # "RPM_BIN_TYPE"
             THEN /\ val' = Str(NotABlob)
                  /\ pc' = "done"
                  /\ crash' = FALSE
                  /\ UNCHANGED <<ext, dig, heap>>
             ELSE IF t.isnull
             THEN \* unsigned int v = *pkt with pkt == NULL
                  /\ val' = NullVal
                  /\ pc' = "done"
                  /\ crash' = TRUE
                  /\ UNCHANGED <<ext, dig, heap>>
             ELSE \E newplen \in PgpLenSizes, hlen \in BodyLens :
                  LET h == PgpHeader(t.data[1], newplen, hlen)
                  IN  /\ crash' = FALSE
                      /\ IF h.pktlen = 0 \/ h.tag # PGPTAG_SIGNATURE
                         THEN /\ val' = Str(NotAnOpenPGPSignature)
                              /\ pc' = "done"
                              /\ UNCHANGED <<ext, dig, heap>>
                         ELSE \E ok \in BOOLEAN, m \in BOOLEAN,
                                 l \in 0 .. MaxDateLen :
                              /\ dig' \in (IF ok THEN Digs ELSE FailedDigs)
                              /\ ext' = [NoExt EXCEPT !.parsed = ok, !.tm = m,
                                            !.datelen = IF m THEN l ELSE 0]
                              /\ heap' = [NoHeap EXCEPT !.dig = 1]
                              /\ val' = NullVal
                              /\ pc' = "again"

\* the values strlen may return for a pass: anything up to the end of the
\* buffer and one past it if it reads indeterminate bytes
StrlenOutcomes(n, b, d, e) ==
    IF RenderPass(n, b, d, e, 0).ub THEN 0 .. n + 1 ELSE {0}

\* from the label again to the next goto again, or to the return
PgpsigAgain ==
    /\ pc = "again"
    /\ LET n == nb + NbQuantum
           b == buf \o Rep(Junk, n + 1 - Len(buf))
       IN  \E k \in StrlenOutcomes(n, b, dig, ext) :
              LET r == RenderPass(n, b, dig, ext, k)
              IN  /\ nb' = n
                  /\ buf' = r.st.b
                  /\ oob' = (oob \/ r.st.oob)
                  /\ IF r.again
                     THEN /\ pc' = "again"
                          /\ val' = NullVal
                          /\ heap' = [heap EXCEPT !.val = 1,
                                        !.tempstr = @ + r.tempstr]
                     ELSE /\ pc' = "done"
                          /\ val' = Str(CStr(r.st.b))
                          /\ heap' = [heap EXCEPT !.val = 1, !.dig = @ - 1,
                                        !.digfrees = @ + 1]
    /\ UNCHANGED <<key, func, td, prefixIn, formatPrefix, reads, crash, ext, dig>>

Next ==
    \/ LookupByName
    \/ LookupByValue
    \/ CallString
    \/ CallArmor
    \/ CallBase64
    \/ CallPgpsig
    \/ PgpsigAgain
    \/ CallDepflags
    \/ CallFflags
    \/ CallPerms
    \/ CallTriggertype
    \/ CallXml
    \/ CallOctal
    \/ CallHex
    \/ CallDate
    \/ CallDay
    \/ CallShescape
    \/ CallArraysize

Spec ==
    Init /\ [][Next]_vars

---------------------------------------------------------------------------
(* Properties *)

NumberFormatters ==
    {"octalFormat", "hexFormat", "dateFormat", "dayFormat", "permsFormat",
     "triggertypeFormat", "depflagsFormat", "fflagsFormat"}

Done(f) ==
    pc = "done" /\ func = f

\* C1: for every value whose kind is not Int32, octal, hex, date, day,
\* perms, triggertype, depflags and fflags return exactly "(not a number)"
\* and do not read the value's data as a 32-bit integer.
C1_NotANumber ==
    (pc = "done" /\ func \in NumberFormatters
        /\ rpmtdType(td) # "RPM_INT32_TYPE")
    => (val = Str(NotANumber) /\ reads = 0 /\ ~crash)

\* triggertype, which fetches the integer pointer before its type test,
\* has answered for a string value
C1_Witness ==
    /\ Done("triggertypeFormat")
    /\ rpmtdType(td) = "RPM_STRING_TYPE"
    /\ val = Str(NotANumber)

\* the entries of the table, sentinel excluded, that match a lookup key
Matches(k) ==
    {i \in 1 .. Len(rpmHeaderFormats) - 1 :
        IF k.by = "name" THEN rpmHeaderFormats[i].name = <<k.k>>
        ELSE rpmHeaderFormats[i].fmt = k.k}

FirstMatch(k) ==
    IF Matches(k) = {} THEN NoFunc
    ELSE rpmHeaderFormats[CHOOSE i \in Matches(k) :
                             \A j \in Matches(k) : i <= j].func

ListedNames ==
    {"string", "armor", "base64", "pgpsig", "depflags", "fflags", "perms",
     "permissions", "triggertype", "xml", "octal", "hex", "date", "day",
     "shescape", "arraysize"}

\* C2: a lookup by name or by code returns the converter of the first table
\* entry, in declared order, that matches, and no converter when none
\* matches; "perms" and "permissions" resolve to the same converter, each
\* of the 16 listed names resolves, and "nonexistent" is not found.
C2_FirstMatch ==
    pc \in {"resolved", "notfound"}
    => /\ func = FirstMatch(key)
       /\ (pc = "notfound") = (Matches(key) = {})
       /\ (key.by = "name" /\ key.k \in {"perms", "permissions"}
              => func = "permsFormat")
       /\ (key.by = "name" /\ key.k \in ListedNames => func # NoFunc)
       /\ (key.by = "name" /\ key.k = "nonexistent"
              => func = NoFunc /\ pc = "notfound")

\* the second of the two entries that share a code was asked for by name
C2_Witness ==
    /\ pc = "resolved"
    /\ key = [by |-> "name", k |-> "permissions"]
    /\ func = "permsFormat"

\* the packet header of a binary value has bit 7 set and the signature tag,
\* whatever the size of its length field and its body length
SignatureHeader(t) ==
    /\ t.data # <<>>
    /\ \A newplen \in PgpLenSizes, hlen \in BodyLens :
          LET h == PgpHeader(t.data[1], newplen, hlen)
          IN  h.pktlen # 0 /\ h.tag = PGPTAG_SIGNATURE

\* C3 (as stated): for a Binary value pgpsig returns exactly
\* "(not an OpenPGP signature)" when bit 7 of the first byte is clear, when
\* the tag is not the signature tag, or when the packet parser fails; a
\* summary is rendered only for a packet that was parsed successfully.
C3_ParseFailureIsPlaceholder ==
    (Done("pgpsigFormat") /\ rpmtdType(td) = "RPM_BIN_TYPE" /\ ~crash)
    => /\ (~SignatureHeader(td) \/ ~ext.parsed
              => val = Str(NotAnOpenPGPSignature))
       /\ (val # Str(NotAnOpenPGPSignature) => ext.parsed)

\* a summary line came out of a packet the parser rejected
C3_Witness ==
    /\ Done("pgpsigFormat")
    /\ SignatureHeader(td)
    /\ ~ext.parsed
    /\ heap.val = 1
    /\ val.tag = "str"
    /\ val # Str(NotAnOpenPGPSignature)

Specifiers ==
    {PRIu8, PRIu16, PRIu32, PRIu64, <<"s">>, <<"o">>, <<"x">>, <<"d">>}

\* what the call appended to the template, if the template still starts
\* with what the caller passed
Appended ==
    IF Len(formatPrefix) >= Len(prefixIn)
       /\ SubSeq(formatPrefix, 1, Len(prefixIn)) = prefixIn
    THEN Str(SubSeq(formatPrefix, Len(prefixIn) + 1, Len(formatPrefix)))
    ELSE NullVal

\* the call rendered its result with the template
RendersWithTemplate ==
    \/ func = "stringFormat" /\ rpmtdType(td) # "RPM_NULL_TYPE"
    \/ func \in NumberFormatters \ {"triggertypeFormat"}
          /\ rpmtdType(td) = "RPM_INT32_TYPE"
    \/ func \in {"shescapeFormat", "arraysizeFormat"}
    \/ func = "base64Format" /\ rpmtdType(td) = "RPM_BIN_TYPE" /\ ~ext.encfail
    \/ func = "xmlFormat" /\ XmlTag(td) # <<>> /\ ~crash

\* C4 (as stated): every converter call, placeholder outcomes included,
\* leaves the template equal to its original content followed by exactly
\* one conversion specifier.
C4_ExactlyOneSpecifier ==
    pc = "done" => \E sp \in Specifiers : formatPrefix = prefixIn \o sp

\* C4 (amended): every converter call leaves the caller's prefix unchanged
\* and appends at most one conversion specifier: exactly one when it
\* renders its result with the template, none when it returns a
\* placeholder, and none in triggertype, armor and pgpsig.
C4_AtMostOneSpecifier ==
    pc = "done"
    => /\ Appended.tag = "str"
       /\ Appended.s \in Specifiers \cup {<<>>}
       /\ (Appended.s # <<>>) = RendersWithTemplate

\* a type mismatch returned its placeholder and left the template alone
C4_Witness ==
    /\ Done("hexFormat")
    /\ rpmtdType(td) = "RPM_STRING_TYPE"
    /\ val = Str(NotANumber)
    /\ prefixIn = <<"%", "-", "3">>
    /\ formatPrefix = prefixIn

\* C5 (as stated): every converter is total: for every value and every
\* outcome of the external primitives it returns a string, never NULL, and
\* never dereferences an absent intermediate result.
C5_Total ==
    pc = "done" => (val.tag # "null" /\ ~crash)

\* base64 returned NULL because its encoder did
C5_Witness ==
    /\ Done("base64Format")
    /\ rpmtdType(td) = "RPM_BIN_TYPE"
    /\ ext.encfail
    /\ val = NullVal

\* s with each single quote replaced by quote, backslash, quote, quote
RECURSIVE QuoteReplaced(_)
QuoteReplaced(str) ==
    IF str = <<>> THEN <<>>
    ELSE (IF str[1] = "'" THEN <<"'", "\\", "'", "'">> ELSE <<str[1]>>)
         \o QuoteReplaced(Tail(str))

\* the word a POSIX shell reads from cs: inside single quotes every
\* character up to the next quote is literal, outside them a backslash
\* makes the next character literal
RECURSIVE ShUnquote(_, _)
ShUnquote(cs, quoted) ==
    IF cs = <<>> THEN (IF quoted THEN <<"unterminated">> ELSE <<>>)
    ELSE IF quoted
         THEN IF cs[1] = "'" THEN ShUnquote(Tail(cs), FALSE)
              ELSE <<cs[1]>> \o ShUnquote(Tail(cs), TRUE)
    ELSE IF cs[1] = "'" THEN ShUnquote(Tail(cs), TRUE)
    ELSE IF cs[1] = "\\" /\ Len(cs) >= 2
         THEN <<cs[2]>> \o ShUnquote(Tail(Tail(cs)), FALSE)
    ELSE <<cs[1]>> \o ShUnquote(Tail(cs), FALSE)

\* C6: for a value whose kind is not Int32 and a template that holds only
\* "%", shescape returns a quote, the string form s with each quote
\* replaced by the 4 characters '\'' and every other character copied, and
\* a quote; un-quoting the result as a POSIX single-quoted literal gives s
\* back, and the result with its terminator takes at most 4 * len(s) + 3
\* bytes.
C6_ShellQuote ==
    (Done("shescapeFormat") /\ rpmtdType(td) # "RPM_INT32_TYPE"
        /\ prefixIn = <<"%">>)
    => LET s == rpmtdGetString(td)
       IN  /\ val = Str(<<"'">> \o QuoteReplaced(s) \o <<"'">>)
           /\ ShUnquote(val.s, FALSE) = s
           /\ Len(val.s) + 1 <= 4 * Len(s) + 3
           /\ ~oob

\* a string made of quotes only, the worst case of the size bound
C6_Witness ==
    /\ Done("shescapeFormat")
    /\ rpmtdType(td) = "RPM_STRING_TYPE"
    /\ prefixIn = <<"%">>
    /\ rpmtdGetString(td) = <<"'", "'">>
    /\ Len(val.s) + 1 = 4 * Len(rpmtdGetString(td)) + 3

\* the value of a time_t, as the bits of a 64-bit two's complement number
TimeValue(tt) ==
    SignExtend(tt.bits, tt.width, 64)

DateFormatters ==
    {"dateFormat", "dayFormat"}

\* the text comes from an empty buf
EmptyDateText ==
    val = Str(Rasprintf(formatPrefix, <<>>))

\* C7 (as stated): for every 32-bit pattern the seconds value date and day
\* hand to localtime is the two's complement signed reading of the pattern,
\* whatever the width of time_t; if localtime fails the date text is empty.
C7_SignedSeconds ==
    (pc = "done" /\ func \in DateFormatters
        /\ rpmtdType(td) = "RPM_INT32_TYPE")
    => /\ TimeValue(DateInt(td, ext)) = SignExtend(rpmtdGetUint32(td), 32, 64)
       /\ (~ext.tm => EmptyDateText)

\* C7 (amended): date and day read the 32 bits as an unsigned number and
\* convert it to time_t: with a 64-bit time_t the seconds value is the
\* unsigned reading (a pattern with the top bit set is a time after
\* 2038-01-19, not before the epoch), with a 32-bit time_t it is the two's
\* complement signed reading; if localtime fails the date text is empty.
C7_UnsignedSeconds ==
    (pc = "done" /\ func \in DateFormatters
        /\ rpmtdType(td) = "RPM_INT32_TYPE")
    => /\ (ext.timebits = 64
              => TimeValue(DateInt(td, ext)) = rpmtdGetUint32(td))
       /\ (ext.timebits = 32
              => TimeValue(DateInt(td, ext))
                    = SignExtend(rpmtdGetUint32(td), 32, 64))
       /\ (~ext.tm => EmptyDateText)

\* a pattern with the top bit set went through a 64-bit time_t
C7_Witness ==
    /\ Done("dateFormat")
    /\ rpmtdType(td) = "RPM_INT32_TYPE"
    /\ 31 \in rpmtdGetUint32(td)
    /\ ext.timebits = 64
    /\ ext.tm

\* the name or the decimal id of an algorithm
AlgoText(algo, names) ==
    IF algo \in DOMAIN names THEN names[algo]
    ELSE Unsigned(NatBits(algo, 0), 10)

\* the summary line built with no limit on its length
Summary(d, e) ==
    AlgoText(d.pubkey_algo,
             (PGPPUBKEYALGO_DSA :> <<"D","S","A">>)
                @@ (PGPPUBKEYALGO_RSA :> <<"R","S","A">>))
    \o <<"/">>
    \o AlgoText(d.hash_algo,
                (PGPHASHALGO_MD5 :> <<"M","D","5">>)
                   @@ (PGPHASHALGO_SHA1 :> <<"S","H","A","1">>))
    \o <<",", " ">>
    \o (IF e.tm THEN strftimeText("%c", e.datelen) ELSE <<>>)
    \o KeyIdLit
    \o pgpHexStr(d.signid)

\* C8 (as stated): for a recognised signature the retry loop of pgpsig ends
\* with the complete string ALGO/HASH, DATE, Key ID HEXID for every length
\* of the date text, the string a builder with no limit would produce.
C8_CompleteSummary ==
    (Done("pgpsigFormat") /\ heap.val = 1 /\ ext.parsed)
    => val = Str(Summary(dig, ext))

\* the loop ended with a string that is not the summary
C8_Witness ==
    /\ Done("pgpsigFormat")
    /\ heap.val = 1
    /\ ext.parsed
    /\ ext.datelen >= 90
    /\ val # Str(Summary(dig, ext))

\* C9: in the loop of pgpsig every write lands inside the nb + 1 bytes
\* allocated for the buffer, where nb starts at 100 and grows by 100 per
\* retry; no write position exceeds offset nb.
C9_WritesInBounds ==
    (func = "pgpsigFormat" /\ pc \in {"again", "done"})
    => /\ ~oob
       /\ (heap.val = 1
              => /\ Len(buf) = nb + 1
                 /\ nb >= NbQuantum
                 /\ nb % NbQuantum = 0)

\* the terminator of the key id was written at offset nb, the last byte
C9_Witness ==
    /\ Done("pgpsigFormat")
    /\ nb = NbQuantum
    /\ Len(val.s) = nb
    /\ buf[nb + 1] = NUL

\* C10 (as stated): when pgpsig returns a rendered line, the returned
\* string is the only allocation of the call still live: the key id hex
\* string of every iteration was released and the signature record was
\* released exactly once.
C10_NothingLeaked ==
    (Done("pgpsigFormat") /\ heap.val = 1)
    => (heap.tempstr = 0 /\ heap.dig = 0 /\ heap.digfrees = 1)

\* the call returned with a key id hex string still allocated
C10_Witness ==
    /\ Done("pgpsigFormat")
    /\ heap.val = 1
    /\ nb = 2 * NbQuantum
    /\ heap.tempstr = 1

=============================================================================
